---- MODULE Spec2Model ----
(***************************************************************************)
(* A model of container_build.py: the layered option resolution            *)
(* (ConfigMerger, Options), the mount resolution (collect_volumes) and the *)
(* control flow of main() up to the two external docker invocations.       *)
(***************************************************************************)
EXTENDS Integers, Sequences, FiniteSets, TLC

VARIABLES
    args,       \* the argparse namespace: attribute name -> value
    environ,    \* the process environment: variable name -> value
    euid,       \* os.geteuid()
    egid,       \* os.getegid()
    cfgText,    \* the content of DEFAULT_CONFIG_FILE on disk
    existing,   \* the other default paths that exist on disk
    links,      \* the symbolic links of the host filesystem: link path -> target
    merger,     \* the ConfigMerger object (config_file, config, config_section)
    opts,       \* the Options object
    volumes,    \* the host path -> container path mapping of main()
    groups,     \* the supplementary groups of main()
    started,    \* the external processes started so far, in order
    results,    \* their return codes, in the same order
    stderr,     \* the kinds of the messages printed to stderr, in order
    pc,         \* the position of main()
    exitCode    \* the exit status of the process, -1 while it runs

vars == <<args, environ, euid, egid, cfgText, existing, links, merger, opts,
          volumes, groups, started, results, stderr, pc, exitCode>>

(***************************************************************************)
(* Bounds of the model.                                                    *)
(***************************************************************************)
MaxArgs == 2        \* command line flags given in one invocation
MaxKeys == 2        \* keys in the first section of the config file
MaxMounts == 2      \* --mount flags given in one invocation
MaxCandidates == 2  \* length of a file-default candidate list

(***************************************************************************)
(* Python values. A value carries its type: 0 and '0' are different, and   *)
(* None is a value of its own.                                             *)
(***************************************************************************)
PyNone == [t |-> "none"]
PyInt(n) == [t |-> "int", v |-> n]
PyStr(s) == [t |-> "str", v |-> s]
PyBool(b) == [t |-> "bool", v |-> b]
PyList(q) == [t |-> "list", v |-> q]

\* bool(value): the truth value Python gives a value in `if value:`
Truthy(value) ==
    CASE value.t = "none" -> FALSE
      [] value.t = "int" -> value.v # 0
      [] value.t = "str" -> value.v # ""
      [] value.t = "bool" -> value.v
      [] value.t = "list" -> value.v # <<>>

\* value == 0 as Python evaluates it: an int 0 or False, never the string '0'
EqualsZero(value) ==
    \/ value.t = "int" /\ value.v = 0
    \/ value.t = "bool" /\ value.v = FALSE

\* str(n) for the integers of the model
FormatInt(n) ==
    CASE n = 0 -> "0"
      [] n = 999 -> "999"
      [] n = 1000 -> "1000"
      [] OTHER -> "n"

\* f'{value}': the text a value has inside an f-string
Format(value) ==
    CASE value.t = "int" -> FormatInt(value.v)
      [] value.t = "str" -> value.v
      [] value.t = "bool" -> IF value.v THEN "True" ELSE "False"
      [] value.t = "none" -> "None"
      [] OTHER -> "[...]"

(***************************************************************************)
(* Module constants.                                                       *)
(***************************************************************************)
DEFAULT_APT_KEYS == "container-build/apt-keys"
DEFAULT_BASE_IMAGE == "debian:stretch-slim"
DEFAULT_CONFIG_FILE == "container-build/build.cfg"
DEFAULT_DOCKER == "docker"
DEFAULT_DOCKER_HOST == "unix:///var/run/docker.sock"
DEFAULT_HOME_DIR == <<"/", "home", "build">>
DEFAULT_INSTALL_SCRIPT == "container-build/install.sh"
DEFAULT_WORK_DIR == <<"src">>

(***************************************************************************)
(* The command line. arg_parser() gives the namespace one attribute per    *)
(* flag, None when the flag is absent.                                     *)
(***************************************************************************)
ParserDests ==
    {"command", "config_file", "no_config_file", "name", "directory",
     "install_script", "no_install_script", "base_image", "package",
     "packages_file", "apt_sources_file", "no_apt_sources_file", "apt_keys",
     "no_apt_keys", "uid", "gid", "username", "home_dir", "shell", "work_dir",
     "mount", "no_recursive_mount", "docker_passthrough", "verbose"}

\* name.replace('-', '_')
AttrName(name) ==
    CASE name = "config-file" -> "config_file"
      [] name = "no-config-file" -> "no_config_file"
      [] name = "install-script" -> "install_script"
      [] name = "no-install-script" -> "no_install_script"
      [] name = "base-image" -> "base_image"
      [] name = "apt-keys" -> "apt_keys"
      [] name = "no-apt-keys" -> "no_apt_keys"
      [] name = "home-dir" -> "home_dir"
      [] name = "work-dir" -> "work_dir"
      [] name = "no-recursive-mount" -> "no_recursive_mount"
      [] name = "docker-passthrough" -> "docker_passthrough"
      [] OTHER -> name

\* name.lower() for the environment variable names
Lower(name) ==
    CASE name = "DOCKER" -> "docker"
      [] name = "DOCKER_HOST" -> "docker_host"
      [] name = "DOCKER_RUN_FLAGS" -> "docker_run_flags"
      [] OTHER -> name

\* getattr(self.args, attr, None)
GetAttr(attr) == IF attr \in DOMAIN args THEN args[attr] ELSE PyNone

\* os.getenv(name)
GetEnv(name) == IF name \in DOMAIN environ THEN environ[name] ELSE PyNone

(***************************************************************************)
(* The config file. A text is absent, malformed, or a sequence of sections *)
(* of key -> value, a key without a value holding None (allow_no_value).   *)
(***************************************************************************)
AbsentText == [kind |-> "absent", sections |-> <<>>]
MalformedText == [kind |-> "malformed", sections |-> <<>>]
IniText(sections) == [kind |-> "ini", sections |-> sections]

CUSTOM_CONFIG_FILE == "my.cfg"
CustomText ==
    IniText(<<[name |-> "custom", keys |-> [k \in {"base-image"} |-> PyStr("custom:1")]]>>)

\* the content of the file at a path
FileText(path) ==
    CASE path = DEFAULT_CONFIG_FILE -> cfgText
      [] path = CUSTOM_CONFIG_FILE -> CustomText
      [] OTHER -> AbsentText

\* os.path.exists(path)
PathExists(path) ==
    CASE path = DEFAULT_CONFIG_FILE -> cfgText.kind # "absent"
      [] path = CUSTOM_CONFIG_FILE -> TRUE
      [] OTHER -> path \in existing

\* self.config is None
NoConfig == [loaded |-> FALSE, sections |-> <<>>, section |-> ""]

\* the section of a parsed file that has the given name
SectionNamed(config, section) ==
    (CHOOSE s \in {config.sections[i] : i \in DOMAIN config.sections} : s.name = section).keys

\* config.has_option(self.config_section, name)
HasOption(config, name) == name \in DOMAIN SectionNamed(config, config.section)

\* config.get(self.config_section, name)
ConfigGet(config, name) == SectionNamed(config, config.section)[name]

\* ConfigMerger.get_or_else on a merger whose self.config is `config`; the lazy
\* default is given by the value it would compute
\* get_or_else with `if arg:` in place of `if arg is not None:`
get_or_else_truthy(config, name, default) ==
    LET arg == GetAttr(AttrName(name))
    IN IF Truthy(arg) THEN arg
       ELSE IF config.loaded /\ HasOption(config, name)
            THEN IF ConfigGet(config, name) # PyNone
                 THEN ConfigGet(config, name)
                 ELSE PyBool(TRUE)
            ELSE default

get_or_else(config, name, default) ==
    LET arg == GetAttr(AttrName(name))
    IN IF arg # PyNone THEN arg
       ELSE IF config.loaded /\ HasOption(config, name)
            THEN IF ConfigGet(config, name) # PyNone
                 THEN ConfigGet(config, name)
                 ELSE PyBool(TRUE)
            ELSE default

\* ConfigMerger.get
get(config, name, default) == get_or_else(config, name, default)

\* ConfigMerger.get_flag
get_flag(config, name) ==
    LET value == get(config, name, PyNone)
    IN IF value.t = "bool" THEN value ELSE PyBool(value # PyNone)

\* ConfigMerger.get_list
get_list(config, name) ==
    LET value == get(config, name, PyList(<<>>))
    IN IF value.t = "list" THEN value
       ELSE IF value # PyNone THEN PyList(<<value.v>>)
       ELSE PyList(<<>>)

\* ConfigMerger.get_env
get_env(config, name, default) ==
    LET env == GetEnv(name)
    IN IF env # PyNone THEN env ELSE get(config, Lower(name), default)

\* the paths of a candidate list that exist, in the list's order
Present(paths) == SelectSeq(paths, PathExists)

\* get_file returning the whole candidate list as soon as one candidate exists
get_file_unfiltered(config, name, default) ==
    LET arg == get(config, name, PyNone)
    IN IF arg # PyNone THEN arg
       ELSE IF default = PyNone \/ Truthy(get(config, "no-" \o name, PyNone))
            THEN PyNone
       ELSE IF default.t = "list"
            THEN IF Present(default.v) # <<>> THEN default ELSE PyNone
            ELSE IF PathExists(default.v) THEN default ELSE PyNone

\* ConfigMerger.get_file
get_file(config, name, default) ==
    LET arg == get(config, name, PyNone)
    IN IF arg # PyNone THEN arg
       ELSE IF default = PyNone \/ Truthy(get(config, "no-" \o name, PyNone))
            THEN PyNone
       ELSE IF default.t = "list"
            THEN IF Present(default.v) # <<>> THEN PyList(Present(default.v)) ELSE PyNone
            ELSE IF PathExists(default.v) THEN default ELSE PyNone

(***************************************************************************)
(* The host filesystem seen by collect_volumes. A path string is the       *)
(* sequence of its segments, "/" first when it is absolute; a canonical    *)
(* path is an absolute one without "." and ".." and without links.         *)
(***************************************************************************)
Root == <<"/">>
Cwd == <<"/", "p">>
Dirs == {Root, Cwd, <<"/", "p", "d">>, <<"/", "e">>}
Files == {<<"/", "p", "f">>}
LinkSlots == {<<"/", "p", "l">>, <<"/", "p", "k">>, <<"/", "p", "d", "m">>}
NoLink == <<>>

\* Path(string): pathlib drops the "." segments and keeps the ".." ones
PurePath(string) ==
    LET absolute == string # <<>> /\ Head(string) = "/"
        rest == IF absolute THEN Tail(string) ELSE string
    IN [absolute |-> absolute, parts |-> SelectSeq(rest, LAMBDA seg : seg # ".")]

\* Path.name: the final component, '' when there is none
PathName(path) == IF path.parts = <<>> THEN "" ELSE path.parts[Len(path.parts)]

\* Path(base, name) for a base path string and one more component
PathJoin(base, name) == IF name = "" THEN base ELSE Append(base, name)

\* Path(home_dir, work_dir): an absolute second argument replaces the first
PathUnder(base, rel) == IF rel # <<>> /\ Head(rel) = "/" THEN rel ELSE base \o rel

Parent(canon) == IF Len(canon) <= 1 THEN canon ELSE SubSeq(canon, 1, Len(canon) - 1)

IsLink(canon) == canon \in DOMAIN links /\ links[canon] # NoLink

\* the walk of Path.resolve() (strict=False): ".." pops a component, a link is
\* replaced by its target, a missing component is kept as it is
RECURSIVE Walk(_, _)
Walk(cur, parts) ==
    IF parts = <<>> THEN cur
    ELSE LET seg == Head(parts)
             stepped == IF seg = ".." THEN Parent(cur)
                        ELSE IF IsLink(Append(cur, seg)) THEN links[Append(cur, seg)]
                        ELSE Append(cur, seg)
         IN Walk(stepped, Tail(parts))

\* Path(string).resolve()
Resolve(string) ==
    LET path == PurePath(string)
    IN Walk(IF path.absolute THEN Root ELSE Cwd, path.parts)

\* Path.is_dir() of a canonical path
IsDir(canon) == canon \in Dirs

\* the entries of os.scandir(dir) that are symbolic links resolving to a
\* directory, in the order scandir yields them (`order` lists every link slot)
LinkedSubdirs(dir, order) ==
    SelectSeq(order, LAMBDA slot : /\ Parent(slot) = dir
                                   /\ IsLink(slot)
                                   /\ IsDir(links[slot]))

\* volumes = {key: value}: the entries written before are lost
Put_fresh(mapping, key, value) == [k \in {key} |-> value]

\* volumes[key] = value
Put(mapping, key, value) ==
    [k \in DOMAIN mapping \cup {key} |-> IF k = key THEN value ELSE mapping[k]]

RECURSIVE PutAll(_, _)
PutAll(mapping, writes) ==
    IF writes = <<>> THEN mapping
    ELSE PutAll(Put(mapping, writes[1][1], writes[1][2]), Tail(writes))

EmptyMapping == [k \in {} |-> <<>>]

\* the target named after the canonical host path, not after the argument
mount_dst_canonical(mount_arg_str, work_dir) ==
    LET mount_src == Resolve(mount_arg_str)
    IN PathJoin(work_dir, IF Len(mount_src) <= 1 THEN "" ELSE mount_src[Len(mount_src)])

\* the bind-mount target of one mount argument
mount_dst(mount_arg_str, work_dir) ==
    PathJoin(work_dir, PathName(PurePath(mount_arg_str)))

\* the links of a mount placed under work_dir, not under the mount's target
MountWrites_flat(mount_arg_str, work_dir, recursive, order) ==
    LET mount_src == Resolve(mount_arg_str)
        dst == mount_dst(mount_arg_str, work_dir)
        subdirs == IF recursive /\ IsDir(mount_src)
                   THEN LinkedSubdirs(mount_src, order) ELSE <<>>
    IN <<<<mount_src, dst>>>> \o
       [i \in 1..Len(subdirs) |->
           <<links[subdirs[i]], PathJoin(work_dir, subdirs[i][Len(subdirs[i])])>>]

\* one iteration of the loop of collect_volumes: the assignments to volumes
MountWrites(mount_arg_str, work_dir, recursive, order) ==
    LET mount_src == Resolve(mount_arg_str)
        dst == mount_dst(mount_arg_str, work_dir)
        subdirs == IF recursive /\ IsDir(mount_src)
                   THEN LinkedSubdirs(mount_src, order) ELSE <<>>
    IN <<<<mount_src, dst>>>> \o
       [i \in 1..Len(subdirs) |->
           <<links[subdirs[i]], PathJoin(dst, subdirs[i][Len(subdirs[i])])>>]

\* collect_volumes
RECURSIVE collect_volumes_from(_, _, _, _, _)
collect_volumes_from(mapping, mount_args, work_dir, recursive, order) ==
    IF mount_args = <<>> THEN mapping
    ELSE collect_volumes_from(
             PutAll(mapping, MountWrites(Head(mount_args), work_dir, recursive, order)),
             Tail(mount_args), work_dir, recursive, order)

collect_volumes(mount_args, work_dir, recursive, order) ==
    collect_volumes_from(EmptyMapping, mount_args, work_dir, recursive, order)

\* the orders in which os.scandir may yield the links
Orderings(S) ==
    {q \in [1..Cardinality(S) -> S] : \A i, j \in 1..Cardinality(S) : q[i] = q[j] => i = j}

ScanOrders == Orderings(LinkSlots)

(***************************************************************************)
(* main(), one action per step between two points where it can stop.       *)
(***************************************************************************)
OptFields ==
    {"apt_keys", "base_image", "docker", "docker_host", "docker_passthrough",
     "gid", "home_dir", "install_script", "mount", "no_recursive_mount",
     "package", "uid", "work_dir"}

NoOpts == [f \in OptFields |-> PyNone]

\* exit(code) after printing a message of the given kind
Exit(code, message) ==
    /\ pc' = "exited"
    /\ exitCode' = code
    /\ stderr' = Append(stderr, message)

\* an exception nothing catches: the interpreter prints the traceback and
\* exits with status 1
Raise(exception) == Exit(1, exception)

\* ConfigMerger.__init__
LoadConfig(config_file) ==
    LET text == FileText(config_file.v)
    IN IF text.sections # <<>>
       THEN [config_file |-> config_file,
             config |-> [loaded |-> TRUE, sections |-> text.sections,
                         section |-> text.sections[1].name]]
       ELSE [config_file |-> config_file, config |-> NoConfig]

\* config.read() raises ParsingError, MissingSectionHeaderError, ... on a file
\* that is not valid ini text
ReadRaises(config_file) ==
    config_file # PyNone /\ FileText(config_file.v).kind = "malformed"

ConfigMergerInit ==
    /\ pc = "start"
    /\ LET config_file == get_file(NoConfig, "config-file", PyStr(DEFAULT_CONFIG_FILE))
       IN IF ReadRaises(config_file)
          THEN /\ Raise("ParsingError")
               /\ UNCHANGED merger
          ELSE /\ merger' = IF config_file # PyNone
                            THEN LoadConfig(config_file)
                            ELSE [config_file |-> PyNone, config |-> NoConfig]
               /\ pc' = "merged"
               /\ UNCHANGED <<exitCode, stderr>>
    /\ UNCHANGED <<args, environ, euid, egid, cfgText, existing, links, opts,
                   volumes, groups, started, results>>

\* Options.__init__
Options(config) ==
    [apt_keys |-> get_file(config, "apt-keys", PyStr(DEFAULT_APT_KEYS)),
     base_image |-> get(config, "base-image", PyStr(DEFAULT_BASE_IMAGE)),
     docker |-> get_env(config, "DOCKER", PyStr(DEFAULT_DOCKER)),
     docker_host |-> get_env(config, "DOCKER_HOST", PyStr(DEFAULT_DOCKER_HOST)),
     docker_passthrough |-> get_flag(config, "docker-passthrough"),
     gid |-> get_or_else(config, "gid", PyInt(egid)),
     home_dir |-> get(config, "home-dir", PyStr(DEFAULT_HOME_DIR)),
     install_script |-> get_file(config, "install-script",
                                 PyList(<<DEFAULT_INSTALL_SCRIPT>>)),
     mount |-> get(config, "mount", PyList(<<<<".">>>>)),
     no_recursive_mount |-> get_flag(config, "no-recursive-mount"),
     package |-> get_list(config, "package"),
     uid |-> get_or_else(config, "uid", PyInt(euid)),
     work_dir |-> get(config, "work-dir", PyStr(DEFAULT_WORK_DIR))]

OptionsInit ==
    /\ pc = "merged"
    /\ opts' = Options(merger.config)
    /\ pc' = "options"
    /\ UNCHANGED <<args, environ, euid, egid, cfgText, existing, links, merger,
                   volumes, groups, started, results, stderr, exitCode>>

\* main, lines 36-40: read_packages fails when the packages file cannot be opened
ReadPackages ==
    /\ pc = "options"
    /\ \E readable \in BOOLEAN :
           IF readable
           THEN pc' = "packages" /\ UNCHANGED <<exitCode, stderr>>
           ELSE Exit(1, "Error opening packages file")
    /\ UNCHANGED <<args, environ, euid, egid, cfgText, existing, links, merger,
                   opts, volumes, groups, started, results>>

\* main, lines 74-76
RunsAsRoot(options) == EqualsZero(options.uid) \/ EqualsZero(options.gid)

CheckIds ==
    /\ pc = "packages"
    /\ IF RunsAsRoot(opts)
       THEN Exit(1, "Cannot run command as root in container")
       ELSE pc' = "ids" /\ UNCHANGED <<exitCode, stderr>>
    /\ UNCHANGED <<args, environ, euid, egid, cfgText, existing, links, merger,
                   opts, volumes, groups, started, results>>

\* main, line 70
WorkDir(options) == PathUnder(options.home_dir.v, options.work_dir.v)

\* the characters of a string of the model, one string each
StrChars(s) ==
    CASE s = "" -> <<>>
      [] s = ".." -> <<".", ".">>
      [] s = "sub" -> <<"s", "u", "b">>
      [] s = "nope" -> <<"n", "o", "p", "e">>
      [] s = "cfg.sh" -> <<"c", "f", "g", ".", "s", "h">>
      [] OTHER -> <<s>>

\* the characters of a path string, each a path string of its own: the
\* segments are written with a "/" between them
RECURSIVE PathChars(_)
PathChars(string) ==
    IF string = <<>> THEN <<>>
    ELSE LET seg == Head(string)
             chars == StrChars(seg)
             sep == IF seg # "/" /\ Tail(string) # <<>> THEN <<<<"/">>>> ELSE <<>>
         IN [i \in 1..Len(chars) |-> <<chars[i]>>] \o sep \o PathChars(Tail(string))

\* `for mount_arg_str in mount_args`: a list yields its elements, a string
\* yields its characters
MountArgs(options) ==
    IF options.mount.t = "list" THEN options.mount.v ELSE PathChars(options.mount.v)

\* `enumerate(install_scripts_src or [])`, main line 66
InstallScriptsSrc(options) ==
    IF ~Truthy(options.install_script) THEN <<>>
    ELSE IF options.install_script.t = "list" THEN options.install_script.v
    ELSE StrChars(options.install_script.v)

\* `for package_arg in opts.package`, main lines 42-43
PackageArgs(options) == IF Truthy(options.package) THEN options.package.v ELSE <<>>

\* main, lines 78-82: Path.resolve() is not strict, so no FileNotFoundError is
\* raised for a missing mount source and the handler is never entered
CollectVolumes ==
    /\ pc = "ids"
    /\ \E order \in ScanOrders :
           volumes' = collect_volumes(MountArgs(opts), WorkDir(opts),
                                      ~opts.no_recursive_mount.v, order)
    /\ pc' = "volumes"
    /\ UNCHANGED <<args, environ, euid, egid, cfgText, existing, links, merger,
                   opts, groups, started, results, stderr, exitCode>>

\* urlparse(url).scheme and urlparse(url).path for the daemon addresses of the model
TCP_DOCKER_HOST == "tcp://127.0.0.1:2375"
UrlScheme(url) ==
    CASE url = DEFAULT_DOCKER_HOST -> "unix"
      [] url = TCP_DOCKER_HOST -> "tcp"
      [] OTHER -> ""
UrlPath(url) ==
    CASE url = DEFAULT_DOCKER_HOST -> <<"/", "var", "run", "docker.sock">>
      [] OTHER -> <<>>

\* what Path.stat() of the daemon socket can give; a missing socket raises OSError
SockStats ==
    {[present |-> FALSE, st_uid |-> 0, st_gid |-> 0, group_rw |-> FALSE],
     [present |-> TRUE, st_uid |-> 1000, st_gid |-> 999, group_rw |-> TRUE],
     [present |-> TRUE, st_uid |-> 0, st_gid |-> 999, group_rw |-> TRUE],
     [present |-> TRUE, st_uid |-> 0, st_gid |-> 999, group_rw |-> FALSE],
     [present |-> TRUE, st_uid |-> 0, st_gid |-> 0, group_rw |-> TRUE]}

\* main, lines 84-108
Passthrough ==
    /\ pc = "volumes"
    /\ IF ~opts.docker_passthrough.v
       THEN /\ pc' = "mounted"
            /\ UNCHANGED <<volumes, groups, exitCode, stderr>>
       ELSE IF UrlScheme(opts.docker_host.v) # "unix"
       THEN /\ Exit(1, "Passthrough of daemon socket scheme not supported")
            /\ UNCHANGED <<volumes, groups>>
       ELSE \E st \in SockStats :
            LET dst == UrlPath(opts.docker_host.v)
            IN /\ volumes' = Put(volumes, Resolve(dst), dst)
               /\ IF ~st.present
                  THEN /\ Exit(1, "Error fetching passthrough socket path")
                       /\ UNCHANGED groups
                  ELSE IF PyInt(st.st_uid) = opts.uid
                  THEN /\ pc' = "mounted"
                       /\ UNCHANGED <<groups, exitCode, stderr>>
                  ELSE IF ~st.group_rw
                  THEN /\ Exit(1, "Passthrough of daemon socket not writable by group")
                       /\ UNCHANGED groups
                  ELSE IF st.st_gid = 0
                  THEN /\ Exit(1, "Passthrough of daemon socket owned by group 0")
                       /\ UNCHANGED groups
                  ELSE /\ groups' = Append(groups, FormatInt(st.st_gid))
                       /\ pc' = "mounted"
                       /\ UNCHANGED <<exitCode, stderr>>
    /\ UNCHANGED <<args, environ, euid, egid, cfgText, existing, links, merger,
                   opts, started, results>>

\* main, lines 54-62 and 110-120: without an apt keys directory apt_keys is None,
\* and generate_dockerfile iterates over it (line 289), a TypeError
GenerateDockerfile ==
    /\ pc = "mounted"
    /\ IF opts.apt_keys = PyNone
       THEN Raise("TypeError")
       ELSE pc' = "dockerfile" /\ UNCHANGED <<exitCode, stderr>>
    /\ UNCHANGED <<args, environ, euid, egid, cfgText, existing, links, merger,
                   opts, volumes, groups, started, results>>

\* main, lines 122-143: the Dockerfile is written and the build files copied
WriteBuildContext ==
    /\ pc = "dockerfile"
    /\ \E outcome \in {"written", "error writing Dockerfile", "error copying file"} :
           IF outcome = "written"
           THEN pc' = "context" /\ UNCHANGED <<exitCode, stderr>>
           ELSE Exit(1, outcome)
    /\ UNCHANGED <<args, environ, euid, egid, cfgText, existing, links, merger,
                   opts, volumes, groups, started, results>>

\* the return codes of an external process
ReturnCodes == {0, 1, 2}

\* subprocess.run without check=True never raises CalledProcessError
CalledProcessError_unchecked(returncode) == FALSE

\* subprocess.run(..., check=True) raises CalledProcessError
CalledProcessError(returncode) == returncode # 0

\* run_docker, lines 383-405: docker build
DockerBuild ==
    /\ pc = "context"
    /\ \E returncode \in ReturnCodes :
           /\ started' = Append(started, "build")
           /\ results' = Append(results, returncode)
           /\ IF CalledProcessError(returncode)
              THEN Exit(1, "docker build returned")
              ELSE pc' = "built" /\ UNCHANGED <<exitCode, stderr>>
    /\ UNCHANGED <<args, environ, euid, egid, cfgText, existing, links, merger,
                   opts, volumes, groups>>

\* run_docker, lines 407-424, and the end of main: docker run
DockerRun ==
    /\ pc = "built"
    /\ \E returncode \in ReturnCodes :
           /\ started' = Append(started, "run")
           /\ results' = Append(results, returncode)
           /\ pc' = "exited"
           /\ IF CalledProcessError(returncode)
              THEN /\ exitCode' = 1
                   /\ stderr' = Append(stderr, "docker run returned")
              ELSE /\ exitCode' = 0
                   /\ UNCHANGED stderr
    /\ UNCHANGED <<args, environ, euid, egid, cfgText, existing, links, merger,
                   opts, volumes, groups>>

Next ==
    \/ ConfigMergerInit
    \/ OptionsInit
    \/ ReadPackages
    \/ CheckIds
    \/ CollectVolumes
    \/ Passthrough
    \/ GenerateDockerfile
    \/ WriteBuildContext
    \/ DockerBuild
    \/ DockerRun

(***************************************************************************)
(* The invocations checked: the command line, the environment and the      *)
(* files on disk are drawn from small sets.                                *)
(***************************************************************************)
BaseArgs(dests) == [d \in dests |-> IF d = "command" THEN PyList(<<>>) ELSE PyNone]

MountForms == {<<".">>, <<"d">>, <<"d", "..">>, <<"l">>, <<"/", "e">>, <<"nope">>}
MountLists == UNION {[1..n -> MountForms] : n \in 1..MaxMounts}

\* the values a flag can be given on the command line
ArgValues(dest) ==
    CASE dest = "base_image" -> {PyStr(""), PyStr("debian:sid")}
      [] dest = "uid" -> {PyInt(0), PyInt(1000)}
      [] dest = "docker_passthrough" -> {PyBool(TRUE)}
      [] dest = "install_script" -> {PyList(<<"cli.sh">>)}
      [] dest = "no_install_script" -> {PyBool(TRUE)}
      [] dest = "no_recursive_mount" -> {PyBool(TRUE)}
      [] dest = "config_file" -> {PyStr(CUSTOM_CONFIG_FILE)}
      [] dest = "docker" -> {PyStr("/cli/docker")}
      [] dest = "package" -> {PyList(<<"gcc">>)}
      [] dest = "mount" -> {PyList(m) : m \in MountLists}

RECURSIVE ArgAssignments(_, _)
ArgAssignments(base, dests) ==
    IF dests = {} THEN {base}
    ELSE LET d == CHOOSE x \in dests : TRUE
             rest == ArgAssignments(base, dests \ {d})
         IN rest \cup {[f EXCEPT ![d] = v] : f \in rest, v \in ArgValues(d)}

\* the namespaces with at most MaxArgs of the flags `dests` given
ArgSpace(base, dests) ==
    {f \in ArgAssignments(base, dests) :
        Cardinality({d \in dests : f[d] # base[d]}) <= MaxArgs}

\* the values a key can have in the config file; None is a key without value
CfgValues(key) ==
    CASE key = "base-image" -> {PyStr("ubuntu:22.04"), PyStr("")}
      [] key = "uid" -> {PyStr("0"), PyStr("1000")}
      [] key = "docker-passthrough" -> {PyNone}
      [] key = "install-script" -> {PyStr("cfg.sh")}
      [] key = "docker" -> {PyStr("/cfg/docker")}
      [] key = "package" -> {PyStr("make")}
      [] key = "mount" -> {PyStr(<<"sub">>)}

KeyAssignments(keys) ==
    UNION {{f \in [K -> UNION {CfgValues(k) : k \in K}] : \A k \in K : f[k] \in CfgValues(k)} :
           K \in {K \in SUBSET keys : Cardinality(K) <= MaxKeys}}

OtherSection ==
    [name |-> "other",
     keys |-> [k \in {"base-image", "uid"} |->
                  IF k = "uid" THEN PyStr("0") ELSE PyStr("other:1")]]

CfgTexts(keys) ==
    {AbsentText, MalformedText, IniText(<<>>)}
    \cup {IniText(<<[name |-> "myproj", keys |-> f]>>) : f \in KeyAssignments(keys)}
    \cup {IniText(<<[name |-> "myproj", keys |-> f], OtherSection>>) :
             f \in KeyAssignments(keys)}

NoLinks == [slot \in LinkSlots |-> NoLink]

\* the targets a link of the model can have
LinkTargets(slot) ==
    CASE slot = <<"/", "p", "l">> -> {NoLink, <<"/", "e">>, <<"/", "p", "d">>, <<"/", "p", "f">>}
      [] slot = <<"/", "p", "k">> -> {NoLink, <<"/", "e">>}
      [] slot = <<"/", "p", "d", "m">> -> {NoLink, <<"/", "e">>, <<"/", "p", "d">>}

LinkSpace == {f \in [LinkSlots -> Dirs \cup Files \cup {NoLink}] :
                 \A slot \in LinkSlots : f[slot] \in LinkTargets(slot)}

InitMain ==
    /\ merger = [config_file |-> PyNone, config |-> NoConfig]
    /\ opts = NoOpts
    /\ volumes = EmptyMapping
    /\ groups = <<>>
    /\ started = <<>>
    /\ results = <<>>
    /\ stderr = <<>>
    /\ pc = "start"
    /\ exitCode = -1

\* invocations that vary the command line, the config file and the defaults
Init ==
    /\ args \in ArgSpace(BaseArgs(ParserDests),
                         {"base_image", "uid", "docker_passthrough", "install_script",
                          "no_install_script", "config_file"})
    /\ environ = [n \in {} |-> PyNone]
    /\ euid \in {0, 1000}
    /\ egid = 1000
    /\ cfgText \in CfgTexts({"base-image", "uid", "docker-passthrough", "install-script"})
    /\ existing \in SUBSET {DEFAULT_INSTALL_SCRIPT, DEFAULT_APT_KEYS}
    /\ links = NoLinks
    /\ InitMain

Spec == Init /\ [][Next]_vars

\* invocations that vary the mount list and the links of the host filesystem
InitMount ==
    /\ args \in ArgSpace(BaseArgs(ParserDests), {"mount", "no_recursive_mount"})
    /\ environ = [n \in {} |-> PyNone]
    /\ euid = 1000
    /\ egid = 1000
    /\ cfgText = AbsentText
    /\ existing = {DEFAULT_APT_KEYS}
    /\ links \in LinkSpace
    /\ InitMain

SpecMount == InitMount /\ [][Next]_vars

\* the values an environment variable can have
EnvValues(name) ==
    CASE name = "DOCKER" -> {PyStr("/env/docker")}
      [] name = "DOCKER_HOST" -> {PyStr(TCP_DOCKER_HOST)}

EnvSpace(names) ==
    UNION {{f \in [N -> UNION {EnvValues(n) : n \in N}] : \A n \in N : f[n] \in EnvValues(n)} :
           N \in SUBSET names}

\* ConfigMerger on any namespace: one that can also hold a value for an option
\* that has an environment variable
InitEnv ==
    /\ args \in ArgSpace(BaseArgs(ParserDests \cup {"docker"}),
                         {"docker", "docker_passthrough"})
    /\ environ \in EnvSpace({"DOCKER", "DOCKER_HOST"})
    /\ euid \in {0, 1000}
    /\ egid \in {0, 1000}
    /\ cfgText \in CfgTexts({"docker"})
    /\ existing \in SUBSET {DEFAULT_APT_KEYS}
    /\ links = NoLinks
    /\ InitMain

SpecEnv == InitEnv /\ [][Next]_vars

\* invocations that give the list options on the command line or in the config file
InitList ==
    /\ args \in ArgSpace(BaseArgs(ParserDests),
                         {"install_script", "no_install_script", "package",
                          "no_recursive_mount"})
              \cup {[BaseArgs(ParserDests) EXCEPT !["mount"] = PyList(<<<<"d">>, <<"/", "e">>>>)]}
    /\ environ = [n \in {} |-> PyNone]
    /\ euid = 1000
    /\ egid = 1000
    /\ \/ cfgText \in CfgTexts({"install-script", "package"})
       \/ cfgText \in CfgTexts({"mount"})
    /\ existing \in SUBSET {DEFAULT_INSTALL_SCRIPT, DEFAULT_APT_KEYS}
    /\ links = NoLinks
    /\ InitMain

SpecList == InitList /\ [][Next]_vars

(***************************************************************************)
(* The properties.                                                         *)
(***************************************************************************)
\* Options.__init__ has completed
Resolved == pc \notin {"start", "merged"} /\ opts # NoOpts

\* Options.__init__ has just completed; nothing writes args, merger or opts later
JustResolved == pc = "options"

\* the sections of the config file the merger read, none without a file
LoadedSections ==
    IF merger.config_file = PyNone THEN <<>> ELSE FileText(merger.config_file.v).sections

\* what the precedence rule gives an option without environment variable: the
\* command line value if the flag was given, else the key of the first section
\* (true for a key without value), else the default
ByPrecedence(name, default) ==
    LET cli == args[AttrName(name)]
    IN IF cli # PyNone THEN cli
       ELSE IF LoadedSections # <<>> /\ name \in DOMAIN LoadedSections[1].keys
            THEN IF LoadedSections[1].keys[name] = PyNone
                 THEN PyBool(TRUE)
                 ELSE LoadedSections[1].keys[name]
            ELSE default

C3_RootUidRejected ==
    (Resolved /\ Format(opts.uid) = "0") =>
        /\ pc \in {"options", "packages", "exited"}
        /\ started = <<>>
        /\ (pc = "exited" => exitCode # 0)

\* C4: docker run is started only after docker build has returned 0; when the
\* build returns non-zero, run is never started and the invocation fails
C4_RunAfterBuild ==
    /\ (started # <<>> => started[1] = "build")
    /\ (Len(started) > 1 => started = <<"build", "run">> /\ results[1] = 0)
    /\ (started # <<>> /\ results[1] # 0 =>
           started = <<"build">> /\ pc = "exited" /\ exitCode # 0)

\* C4 witness: the run was started after a build that returned 0
C4_Witness == started = <<"build", "run">> /\ results[1] = 0

\* collect_volumes has returned and nothing else has written to volumes yet
Collected == pc = "volumes"

Mounts == opts.mount.v
Recursive == ~opts.no_recursive_mount.v

\* the last component of a canonical path, '' for the root
Basename(canon) == IF Len(canon) <= 1 THEN "" ELSE canon[Len(canon)]

\* the last segment of a path string as it is written, "." segments aside
WrittenName(string) ==
    LET segs == SelectSeq(string, LAMBDA seg : seg \notin {"/", "."})
    IN IF segs = <<>> THEN "" ELSE segs[Len(segs)]

\* entry j of the mount list is expanded and `slot` is one of the links it adds
Expands(j, slot) ==
    /\ Recursive
    /\ Parent(slot) = Resolve(Mounts[j])
    /\ IsDir(Resolve(Mounts[j]))
    /\ IsLink(slot)
    /\ IsDir(links[slot])

\* host path `canon` is written again after entry i has recorded its own source
RewrittenAfterEntry(i, canon) ==
    \/ \E j \in (i + 1)..Len(Mounts) : Resolve(Mounts[j]) = canon
    \/ \E j \in i..Len(Mounts) : \E slot \in LinkSlots :
           Expands(j, slot) /\ links[slot] = canon

\* host path `canon` is or may be written again after entry i has recorded
\* its link `slot`
RewrittenAfterLink(i, slot, canon) ==
    \/ \E j \in (i + 1)..Len(Mounts) : Resolve(Mounts[j]) = canon
    \/ \E j \in i..Len(Mounts) : \E other \in LinkSlots :
           /\ Expands(j, other)
           /\ links[other] = canon
           /\ (j > i \/ other # slot)

\* C5 as claimed: the source H of every entry maps to workdir / basename(H),
\* read in the claim's favour for an entry whose host path is written again
C5_NamedAfterCanonical ==
    Collected =>
        \A i \in 1..Len(Mounts) :
            LET H == Resolve(Mounts[i])
            IN ~RewrittenAfterEntry(i, H) =>
                   volumes[H] = PathJoin(WorkDir(opts), Basename(H))

\* C5: the source H of every entry is a key of the mapping, and unless H is
\* written again later it maps to workdir / name, where name is the last
\* component of the entry as written ('' for '.', '..' for a trailing '..',
\* the link's own name for a symbolic link)
C5_NamedAsWritten ==
    Collected =>
        \A i \in 1..Len(Mounts) :
            LET H == Resolve(Mounts[i])
            IN /\ H \in DOMAIN volumes
               /\ ~RewrittenAfterEntry(i, H) =>
                      volumes[H] = PathJoin(WorkDir(opts), WrittenName(Mounts[i]))

\* C5 witness: an entry whose written name is not the basename of its source
\* has been recorded
C5_Witness ==
    /\ Collected
    /\ \E i \in 1..Len(Mounts) :
           /\ WrittenName(Mounts[i]) # Basename(Resolve(Mounts[i]))
           /\ ~RewrittenAfterEntry(i, Resolve(Mounts[i]))
           /\ volumes[Resolve(Mounts[i])] = PathJoin(WorkDir(opts), WrittenName(Mounts[i]))

\* C6 as claimed: for a mounted directory D with a link L to a directory, the
\* mapping holds canonical(D) -> workdir/name(D) and target(L) -> workdir/name(D)/L
C6_BothEntries ==
    Collected =>
        \A i \in 1..Len(Mounts) : \A slot \in LinkSlots :
            Expands(i, slot) =>
                LET dst == PathJoin(WorkDir(opts), WrittenName(Mounts[i]))
                IN /\ Resolve(Mounts[i]) \in DOMAIN volumes
                   /\ volumes[Resolve(Mounts[i])] = dst
                   /\ links[slot] \in DOMAIN volumes
                   /\ volumes[links[slot]] = Append(dst, slot[Len(slot)])

\* C6: canonical(D) and target(L) are both keys of the mapping; each maps to
\* the claimed container path unless its host path is written again later (by
\* a later entry or by another expanded link), and then the last writer wins
C6_BothEntriesUnlessRewritten ==
    Collected =>
        \A i \in 1..Len(Mounts) : \A slot \in LinkSlots :
            Expands(i, slot) =>
                LET dst == PathJoin(WorkDir(opts), WrittenName(Mounts[i]))
                    D == Resolve(Mounts[i])
                    S == links[slot]
                IN /\ D \in DOMAIN volumes
                   /\ S \in DOMAIN volumes
                   /\ ~RewrittenAfterEntry(i, D) => volumes[D] = dst
                   /\ ~RewrittenAfterLink(i, slot, S) =>
                          volumes[S] = Append(dst, slot[Len(slot)])

\* C6 witness: a mounted directory has been expanded and both entries are there
C6_Witness ==
    /\ Collected
    /\ \E i \in 1..Len(Mounts) : \E slot \in LinkSlots :
           /\ Expands(i, slot)
           /\ volumes[Resolve(Mounts[i])] = PathJoin(WorkDir(opts), WrittenName(Mounts[i]))
           /\ volumes[links[slot]] =
                  Append(PathJoin(WorkDir(opts), WrittenName(Mounts[i])), slot[Len(slot)])

\* the mount list in another order
Reordered(list, perm) == [i \in 1..Len(list) |-> list[perm[i]]]
ListOrders(list) == Orderings(1..Len(list))

\* the host paths collect_volumes writes for the mount list, with repetitions
RECURSIVE WrittenKeys(_, _)
WrittenKeys(list, order) ==
    IF list = <<>> THEN <<>>
    ELSE LET writes == MountWrites(Head(list), WorkDir(opts), Recursive, order)
         IN [i \in 1..Len(writes) |-> writes[i][1]] \o WrittenKeys(Tail(list), order)

NoRepetition(q) == \A i, j \in 1..Len(q) : q[i] = q[j] => i = j

\* the entries differ pairwise in their written names and in the basenames of
\* their sources
DistinctBasenames ==
    \A i, j \in 1..Len(Mounts) :
        i # j => /\ WrittenName(Mounts[i]) # WrittenName(Mounts[j])
                 /\ Basename(Resolve(Mounts[i])) # Basename(Resolve(Mounts[j]))

\* C7 as claimed: with pairwise distinct basenames every order of the mount
\* list gives the same mapping (the filesystem and the scandir order fixed)
C7_OrderIrrelevantForDistinctBasenames ==
    (Collected /\ DistinctBasenames) =>
        \A order \in ScanOrders : \A perm \in ListOrders(Mounts) :
            collect_volumes(Reordered(Mounts, perm), WorkDir(opts), Recursive, order)
                = collect_volumes(Mounts, WorkDir(opts), Recursive, order)

\* C7: when no host path is written twice (the sources of the entries and the
\* targets of the expanded links are pairwise distinct), every order of the
\* mount list gives the mapping main() got
C7_OrderIrrelevantForDistinctSources ==
    (Collected /\ NoRepetition(WrittenKeys(Mounts, CHOOSE order \in ScanOrders : TRUE))) =>
        \A order \in ScanOrders : \A perm \in ListOrders(Mounts) :
            collect_volumes(Reordered(Mounts, perm), WorkDir(opts), Recursive, order) = volumes

\* C7 witness: two entries, one of them expanded, no host path written twice
C7_Witness ==
    /\ Collected
    /\ Len(Mounts) >= 2
    /\ NoRepetition(WrittenKeys(Mounts, CHOOSE order \in ScanOrders : TRUE))
    /\ \E slot \in LinkSlots : Expands(1, slot)
    /\ Cardinality(DOMAIN volumes) >= 3

\* collect_volumes has been called
PastMounts == pc \notin {"start", "merged", "options", "packages", "ids"}
\* a canonical path names a directory or a file of the host
Exists(canon) == canon \in Dirs \cup Files
MissingMount == \E i \in 1..Len(Mounts) : ~Exists(Resolve(Mounts[i]))

\* C8: a mount entry that does not exist makes the invocation stop with a
\* non-zero status, without a mapping and without an external process
C8_MissingMountAborts ==
    (Resolved /\ PastMounts /\ MissingMount) =>
        /\ pc = "exited"
        /\ exitCode # 0
        /\ started = <<>>
        /\ volumes = EmptyMapping

\* the config file the merger picks is not valid ini text
MalformedConfig ==
    /\ args["config_file"] = PyNone
    /\ args["no_config_file"] = PyNone
    /\ cfgText = MalformedText

\* C9: with a malformed config file ConfigMerger is constructed all the same,
\* holds no section, and the options resolve
C9_MalformedConfigIgnored ==
    (MalformedConfig /\ pc # "start") =>
        /\ "ParsingError" \notin {stderr[i] : i \in DOMAIN stderr}
        /\ merger.config = NoConfig
        /\ (pc # "merged" => opts # NoOpts)

\* no command line or config file value for install-script, no negation
InstallScriptByDefault ==
    /\ args["install_script"] = PyNone
    /\ ~(LoadedSections # <<>> /\ "install-script" \in DOMAIN LoadedSections[1].keys)
    /\ ~Truthy(ByPrecedence("no-install-script", PyNone))

\* the candidates that exist, in the order of the list
RECURSIVE ExistingOf(_)
ExistingOf(paths) ==
    IF paths = <<>> THEN <<>>
    ELSE (IF PathExists(Head(paths)) THEN <<Head(paths)>> ELSE <<>>) \o ExistingOf(Tail(paths))

CandidateLists ==
    UNION {[1..n -> {DEFAULT_INSTALL_SCRIPT, DEFAULT_APT_KEYS, DEFAULT_CONFIG_FILE}] :
           n \in 1..MaxCandidates}

\* C10 as claimed: get_file returns the existing candidates in order, and the
\* empty sequence when none exists
C10_ExistingOrEmpty ==
    (JustResolved /\ InstallScriptByDefault) =>
        /\ opts.install_script = PyList(ExistingOf(<<DEFAULT_INSTALL_SCRIPT>>))
        /\ \A q \in CandidateLists :
               get_file(merger.config, "install-script", PyList(q)) = PyList(ExistingOf(q))

\* C10: get_file returns the existing candidates in their original order, and
\* None (no sequence at all) when none of them exists
C10_ExistingOrNone ==
    (JustResolved /\ InstallScriptByDefault) =>
        /\ opts.install_script =
               IF PathExists(DEFAULT_INSTALL_SCRIPT)
               THEN PyList(<<DEFAULT_INSTALL_SCRIPT>>) ELSE PyNone
        /\ \A q \in CandidateLists :
               get_file(merger.config, "install-script", PyList(q)) =
                   IF ExistingOf(q) # <<>> THEN PyList(ExistingOf(q)) ELSE PyNone

\* C10 witness: of the candidates of install-script some exist and some do
\* not, and the option resolved to the default that exists
C10_Witness ==
    /\ JustResolved
    /\ InstallScriptByDefault
    /\ PathExists(DEFAULT_INSTALL_SCRIPT)
    /\ ~PathExists(DEFAULT_APT_KEYS)
    /\ opts.install_script = PyList(<<DEFAULT_INSTALL_SCRIPT>>)

\* the invocation has ended after an external process returned non-zero
ProcessFailed ==
    /\ pc = "exited"
    /\ started # <<>>
    /\ results[Len(results)] # 0

\* C11: when docker build or docker run returns a non-zero code c, the tool
\* exits with c, and the message it prints names the step that failed
C11_ExitCodeMirrors ==
    ProcessFailed =>
        /\ exitCode = results[Len(results)]
        /\ stderr # <<>>
        /\ stderr[Len(stderr)] =
               IF started[Len(started)] = "build"
               THEN "docker build returned" ELSE "docker run returned"

\* a resolved value as a sequence of whole values: a list as it is, a single
\* scalar as one element, nothing as the empty sequence
Whole(value) ==
    CASE value.t = "list" -> value.v
      [] value.t = "none" -> <<>>
      [] OTHER -> <<value.v>>

\* the default of install-script: the candidates that exist, unless negated
InstallScriptDefault ==
    IF Truthy(ByPrecedence("no-install-script", PyNone))
    THEN PyNone ELSE PyList(ExistingOf(<<DEFAULT_INSTALL_SCRIPT>>))

\* C12: mount, install-script and package reach their consumers (collect_volumes,
\* the install-script loop and the package loop of main) as the sequence of
\* whole values of the source that supplied them: the command line's list, the
\* config file's single value as one element, else the default or nothing
C12_WholeValues ==
    JustResolved =>
        /\ MountArgs(opts) = Whole(ByPrecedence("mount", PyList(<<<<".">>>>)))
        /\ InstallScriptsSrc(opts) = Whole(ByPrecedence("install-script", InstallScriptDefault))
        /\ PackageArgs(opts) = Whole(ByPrecedence("package", PyNone))
====
